---- MODULE Spec2Model ----
(***************************************************************************)
(* State machine of client/account/AccountProfileForm.js: the account      *)
(* profile form's field validators, the debounced username availability    *)
(* check, the effects that react to value changes and the aggregate        *)
(* canSave signal published to the container.                              *)
(*                                                                         *)
(* One render of the component is one state.  A handler call that changes  *)
(* a value re-renders; the effects whose dependencies changed are then     *)
(* pending and are flushed, in declaration order, before the next event    *)
(* (edit, timer, response) is processed.                                   *)
(***************************************************************************)
EXTENDS Integers, Sequences, FiniteSets, TLC

VARIABLES
    realname, email, username, password, confirmationPassword, statusText,
    usernameError, avatarSuggestions,
    timers, inflight,
    avatarCalls, avatarInFlight,
    sendInFlight, sendCalls,
    toasts, setCanSaveCalls,
    pendingEffects, everDiffered

vars == << realname, email, username, password, confirmationPassword, statusText,
           usernameError, avatarSuggestions, timers, inflight,
           avatarCalls, avatarInFlight, sendInFlight, sendCalls,
           toasts, setCanSaveCalls, pendingEffects, everDiffered >>

fieldValues == << realname, email, username, password, confirmationPassword, statusText >>

(***************************************************************************)
(* Bounds of the model.                                                    *)
(***************************************************************************)
MaxInFlight == 2      \* availability requests awaiting their answer
MaxSends == 1         \* invocations of the resend action that reach the server

(***************************************************************************)
(* Values.  undefined is JavaScript's undefined; "" is the empty string.   *)
(***************************************************************************)
undefined == "undefined"

Rep(n) == [i \in 1..n |-> "x"]

MaxStatusLength == 120

user == [name |-> "Alice", username |-> "admin", email |-> "a@x.com", verified |-> FALSE]
requireName == TRUE

Realnames == {"", "Alice", "Bob"}
Emails == {"a@x.com", "a@new.com", "a.x.com"}
Usernames == {"admin", "alice", "bob", "b@d"}
Passwords == {"", "secret1", "secret2"}
StatusTexts == {Rep(0), Rep(MaxStatusLength), Rep(MaxStatusLength + 1)}

\* the names the server reports as already taken
TakenUsernames == {"alice"}

(***************************************************************************)
(* Collaborators.                                                          *)
(***************************************************************************)
\* t(key): the translation of a key
t(key) ==
    CASE key = "Passwords_do_not_match" -> "passwords do not match"
      [] key = "error-invalid-username" -> "invalid username"
      [] key = "Username_already_exist" -> "username already exists"
      [] key = "Field_required" -> "field required"
      [] key = "Max_length_is" -> "max length is 120"
      [] key = "Verification_email_sent" -> "verification email sent"
      [] OTHER -> key

\* JavaScript truthiness of a string-or-undefined value
Truthy(x) == x # undefined /\ x # ""

\* truthiness of a text held as a sequence of characters
TruthyText(s) == Len(s) # 0

isEmail(e) == e \in {"a@x.com", "a@new.com"}

namesRegexTest(u) == u \in {"admin", "alice", "bob"}

getUserEmailAddress(u) == u.email

previousEmail == getUserEmailAddress(user)

serverIsAvailable(u) == u \notin TakenUsernames

(***************************************************************************)
(* Field validators.                                                       *)
(***************************************************************************)
\* variant: the comparison alone decides, an empty value counts as a mismatch
passwordErrorOfCompareOnly(pw, cpw) ==
    IF pw = cpw THEN undefined ELSE t("Passwords_do_not_match")

\* variant: the equality test is missing
passwordErrorOfNoEquality(pw, cpw) ==
    IF ~Truthy(pw) \/ ~Truthy(cpw)
    THEN undefined ELSE t("Passwords_do_not_match")

passwordErrorOf(pw, cpw) ==
    IF ~Truthy(pw) \/ ~Truthy(cpw) \/ pw = cpw
    THEN undefined ELSE t("Passwords_do_not_match")

emailErrorOf(em) == IF isEmail(em) THEN undefined ELSE "error-invalid-email-address"

nameErrorOf(rn) ==
    IF user.name = rn THEN undefined
    ELSE IF ~Truthy(rn) /\ requireName THEN t("Field_required")
    ELSE undefined

\* variant: the length limit is exclusive
statusTextErrorOfExclusive(st) ==
    IF ~TruthyText(st) \/ Len(st) < MaxStatusLength \/ Len(st) = 0
    THEN undefined ELSE t("Max_length_is")

statusTextErrorOf(st) ==
    IF ~TruthyText(st) \/ Len(st) <= MaxStatusLength \/ Len(st) = 0
    THEN undefined ELSE t("Max_length_is")

passwordError == passwordErrorOf(password, confirmationPassword)
emailError == emailErrorOf(email)
nameError == nameErrorOf(realname)
statusTextError == statusTextErrorOf(statusText)

(***************************************************************************)
(* Aggregate validity.                                                     *)
(***************************************************************************)
errorFlags(pwE, emE, unE, nmE, stE) ==
    << Truthy(pwE), Truthy(emE), Truthy(unE), Truthy(nmE), Truthy(stE) >>

filterBoolean(flags) == SelectSeq(flags, LAMBDA b : b)

\* variant: the length of the array is coerced, not the array
arrayToBooleanOfLength(a) == Len(a) > 0

\* !!array: an array object is truthy whatever it holds
arrayToBoolean(a) == Len(a) >= 0

canSaveOf(pwE, emE, unE, nmE, stE) ==
    arrayToBoolean(filterBoolean(errorFlags(pwE, emE, unE, nmE, stE)))

canSave == canSaveOf(passwordError, emailError, usernameError, nameError, statusTextError)

anyError ==
    \/ passwordError # undefined
    \/ emailError # undefined
    \/ usernameError # undefined
    \/ nameError # undefined
    \/ statusTextError # undefined

(***************************************************************************)
(* Effects of one render, in declaration order.                            *)
(***************************************************************************)
effectOrder == << "getAvatarSuggestions", "checkUsername", "password", "canSave" >>

effectIndex(e) == CHOOSE i \in 1..Len(effectOrder) : effectOrder[i] = e

\* e is the next effect the flush runs
nextEffect(e) ==
    /\ e \in pendingEffects
    /\ \A f \in pendingEffects : effectIndex(e) <= effectIndex(f)

idle == pendingEffects = {}

inflightCount == inflight["admin"] + inflight["alice"] + inflight["bob"] + inflight["b@d"]

Init ==
    /\ realname \in Realnames
    /\ email \in Emails
    /\ username \in Usernames
    /\ password \in Passwords
    /\ confirmationPassword \in Passwords
    /\ statusText \in StatusTexts
    /\ usernameError = undefined
    /\ avatarSuggestions = undefined
    /\ timers = {}
    /\ inflight = [u \in Usernames |-> 0]
    /\ avatarCalls = 0
    /\ avatarInFlight = FALSE
    /\ sendInFlight = 0
    /\ sendCalls = 0
    /\ toasts = << >>
    /\ setCanSaveCalls = << >>
    /\ pendingEffects = {"getAvatarSuggestions", "checkUsername", "password", "canSave"}
    /\ everDiffered = (username # user.username)


\* variant: the effect has no dependencies and runs after every render
canSaveEffectEveryRender(newCanSave) == {"canSave"}

\* the canSave effect is scheduled by a render in which canSave differs from
\* the previous render's
canSaveEffect(newCanSave) == IF newCanSave # canSave THEN {"canSave"} ELSE {}

lastTwo(s) == IF Len(s) <= 2 THEN s ELSE SubSeq(s, Len(s) - 1, Len(s))

(***************************************************************************)
(* Field handlers: the user edits a field through the container's handler. *)
(***************************************************************************)
HandleRealname(v) ==
    /\ idle
    /\ realname' = v
    /\ pendingEffects' = canSaveEffect(canSaveOf(passwordError, emailError,
                              usernameError, nameErrorOf(v), statusTextError))
    /\ UNCHANGED << email, username, password, confirmationPassword, statusText,
                    usernameError, avatarSuggestions, timers, inflight,
                    avatarCalls, avatarInFlight, sendInFlight, sendCalls,
                    toasts, setCanSaveCalls, everDiffered >>

HandleEmail(v) ==
    /\ idle
    /\ email' = v
    /\ pendingEffects' = canSaveEffect(canSaveOf(passwordError, emailErrorOf(v),
                              usernameError, nameError, statusTextError))
    /\ UNCHANGED << realname, username, password, confirmationPassword, statusText,
                    usernameError, avatarSuggestions, timers, inflight,
                    avatarCalls, avatarInFlight, sendInFlight, sendCalls,
                    toasts, setCanSaveCalls, everDiffered >>

HandleStatusText(v) ==
    /\ idle
    /\ statusText' = v
    /\ pendingEffects' = canSaveEffect(canSaveOf(passwordError, emailError,
                              usernameError, nameError, statusTextErrorOf(v)))
    /\ UNCHANGED << realname, email, username, password, confirmationPassword,
                    usernameError, avatarSuggestions, timers, inflight,
                    avatarCalls, avatarInFlight, sendInFlight, sendCalls,
                    toasts, setCanSaveCalls, everDiffered >>

\* variant: username is missing from the dependencies of the effect
HandleUsernameNoEffect(v) ==
    /\ idle
    /\ username' = v
    /\ everDiffered' = (everDiffered \/ v # user.username)
    /\ UNCHANGED << realname, email, password, confirmationPassword, statusText,
                    usernameError, avatarSuggestions, timers, inflight,
                    avatarCalls, avatarInFlight, sendInFlight, sendCalls,
                    toasts, setCanSaveCalls, pendingEffects >>

HandleUsername(v) ==
    /\ idle
    /\ username' = v
    /\ everDiffered' = (everDiffered \/ v # user.username)
    /\ pendingEffects' = IF v # username THEN {"checkUsername"} ELSE {}
    /\ UNCHANGED << realname, email, password, confirmationPassword, statusText,
                    usernameError, avatarSuggestions, timers, inflight,
                    avatarCalls, avatarInFlight, sendInFlight, sendCalls,
                    toasts, setCanSaveCalls >>

HandlePassword(v) ==
    /\ idle
    /\ password' = v
    /\ pendingEffects' =
           (IF v # password THEN {"password"} ELSE {})
           \cup canSaveEffect(canSaveOf(passwordErrorOf(v, confirmationPassword),
                              emailError, usernameError, nameError, statusTextError))
    /\ UNCHANGED << realname, email, username, confirmationPassword, statusText,
                    usernameError, avatarSuggestions, timers, inflight,
                    avatarCalls, avatarInFlight, sendInFlight, sendCalls,
                    toasts, setCanSaveCalls, everDiffered >>

\* the Confirm_password input: its visibility follows password, its onChange
\* is the handler whatever the visibility
HandleConfirmationPassword(v) ==
    /\ idle
    /\ confirmationPassword' = v
    /\ pendingEffects' = canSaveEffect(canSaveOf(passwordErrorOf(password, v),
                              emailError, usernameError, nameError, statusTextError))
    /\ UNCHANGED << realname, email, username, password, statusText,
                    usernameError, avatarSuggestions, timers, inflight,
                    avatarCalls, avatarInFlight, sendInFlight, sendCalls,
                    toasts, setCanSaveCalls, everDiffered >>

(***************************************************************************)
(* Effects.                                                                *)
(***************************************************************************)
\* useEffect(getAvatarSuggestions): one call of the remote method
RunAvatarEffect ==
    /\ nextEffect("getAvatarSuggestions")
    /\ pendingEffects' = pendingEffects \ {"getAvatarSuggestions"}
    /\ avatarCalls' = avatarCalls + 1
    /\ avatarInFlight' = TRUE
    /\ UNCHANGED << fieldValues, usernameError, avatarSuggestions, timers, inflight,
                    sendInFlight, sendCalls, toasts, setCanSaveCalls, everDiffered >>

\* variant: the pending timer is not cleared
debounceNoClear(ts, v) == ts \cup {v}

\* the function useDebouncedCallback returns: a call clears the pending timer
\* and starts one of 400 ms for the new argument
debounce(ts, v) == {v}

\* useEffect(checkUsername): checkUsername(username)
RunCheckUsernameEffect ==
    /\ nextEffect("checkUsername")
    /\ pendingEffects' = pendingEffects \ {"checkUsername"}
    /\ timers' = debounce(timers, username)
    /\ UNCHANGED << fieldValues, usernameError, avatarSuggestions, inflight,
                    avatarCalls, avatarInFlight, sendInFlight, sendCalls,
                    toasts, setCanSaveCalls, everDiffered >>

\* variant: the effect runs and does not call the handler
RunPasswordEffectNoCascade ==
    /\ nextEffect("password")
    /\ pendingEffects' = pendingEffects \ {"password"}
    /\ UNCHANGED << fieldValues, usernameError, avatarSuggestions, timers, inflight,
                    avatarCalls, avatarInFlight, sendInFlight, sendCalls,
                    toasts, setCanSaveCalls, everDiffered >>

\* variant: the test of password is missing
RunPasswordEffectUnconditional ==
    /\ nextEffect("password")
    /\ confirmationPassword' = ""
    /\ pendingEffects' =
           (pendingEffects \ {"password"})
           \cup canSaveEffect(canSaveOf(passwordErrorOf(password, confirmationPassword'),
                              emailError, usernameError, nameError, statusTextError))
    /\ UNCHANGED << realname, email, username, password, statusText,
                    usernameError, avatarSuggestions, timers, inflight,
                    avatarCalls, avatarInFlight, sendInFlight, sendCalls,
                    toasts, setCanSaveCalls, everDiffered >>

\* useEffect(password): an empty password clears the confirmation
RunPasswordEffect ==
    /\ nextEffect("password")
    /\ confirmationPassword' = IF ~Truthy(password) THEN "" ELSE confirmationPassword
    /\ pendingEffects' =
           (pendingEffects \ {"password"})
           \cup canSaveEffect(canSaveOf(passwordErrorOf(password, confirmationPassword'),
                              emailError, usernameError, nameError, statusTextError))
    /\ UNCHANGED << realname, email, username, password, statusText,
                    usernameError, avatarSuggestions, timers, inflight,
                    avatarCalls, avatarInFlight, sendInFlight, sendCalls,
                    toasts, setCanSaveCalls, everDiffered >>

\* useEffect(canSave): setCanSave(canSave)
RunCanSaveEffect ==
    /\ nextEffect("canSave")
    /\ pendingEffects' = pendingEffects \ {"canSave"}
    /\ setCanSaveCalls' = lastTwo(Append(setCanSaveCalls, canSave))
    /\ UNCHANGED << fieldValues, usernameError, avatarSuggestions, timers, inflight,
                    avatarCalls, avatarInFlight, sendInFlight, sendCalls,
                    toasts, everDiffered >>

(***************************************************************************)
(* The username check: the debounced callback and the answers of the       *)
(* server.                                                                 *)
(***************************************************************************)
\* variant: the comparison with the baseline username is missing
checkUsernameSyncNoBaseline(v) ==
    IF ~namesRegexTest(v) THEN [error |-> t("error-invalid-username"), request |-> FALSE]
    ELSE [error |-> usernameError, request |-> TRUE]

\* variant: the baseline username returns without resetting the error
checkUsernameSyncKeepError(v) ==
    IF user.username = v THEN [error |-> usernameError, request |-> FALSE]
    ELSE IF ~namesRegexTest(v) THEN [error |-> t("error-invalid-username"), request |-> FALSE]
    ELSE [error |-> usernameError, request |-> TRUE]

\* variant: the return after the pattern failure is missing
checkUsernameSyncNoReturn(v) ==
    IF user.username = v THEN [error |-> undefined, request |-> FALSE]
    ELSE IF ~namesRegexTest(v) THEN [error |-> t("error-invalid-username"), request |-> TRUE]
    ELSE [error |-> usernameError, request |-> TRUE]

\* the part of checkUsername before its await
checkUsernameSync(v) ==
    IF user.username = v THEN [error |-> undefined, request |-> FALSE]
    ELSE IF ~namesRegexTest(v) THEN [error |-> t("error-invalid-username"), request |-> FALSE]
    ELSE [error |-> usernameError, request |-> TRUE]

\* the part of checkUsername after its await
checkUsernameResolved(isAvailable) ==
    IF ~isAvailable THEN t("Username_already_exist") ELSE undefined

\* the 400 ms timer fires with the argument it was started for
TimerFires(v) ==
    /\ idle
    /\ v \in timers
    /\ checkUsernameSync(v).request => inflightCount < MaxInFlight
    /\ timers' = timers \ {v}
    /\ usernameError' = checkUsernameSync(v).error
    /\ inflight' = IF checkUsernameSync(v).request
                   THEN [inflight EXCEPT ![v] = @ + 1] ELSE inflight
    /\ pendingEffects' = canSaveEffect(canSaveOf(passwordError, emailError,
                              usernameError', nameError, statusTextError))
    /\ UNCHANGED << fieldValues, avatarSuggestions,
                    avatarCalls, avatarInFlight, sendInFlight, sendCalls,
                    toasts, setCanSaveCalls, everDiffered >>

\* checkUsernameAvailability(v) resolves
CheckResolves(v) ==
    /\ idle
    /\ inflight[v] > 0
    /\ inflight' = [inflight EXCEPT ![v] = @ - 1]
    /\ usernameError' = checkUsernameResolved(serverIsAvailable(v))
    /\ pendingEffects' = canSaveEffect(canSaveOf(passwordError, emailError,
                              usernameError', nameError, statusTextError))
    /\ UNCHANGED << fieldValues, avatarSuggestions, timers,
                    avatarCalls, avatarInFlight, sendInFlight, sendCalls,
                    toasts, setCanSaveCalls, everDiffered >>

\* checkUsernameAvailability(v) rejects: the callback has no catch, the
\* promise it returned rejects and nothing else happens
CheckRejects(v) ==
    /\ idle
    /\ inflight[v] > 0
    /\ inflight' = [inflight EXCEPT ![v] = @ - 1]
    /\ UNCHANGED << fieldValues, usernameError, avatarSuggestions, timers,
                    avatarCalls, avatarInFlight, sendInFlight, sendCalls,
                    toasts, setCanSaveCalls, pendingEffects, everDiffered >>

(***************************************************************************)
(* Avatar suggestions.                                                     *)
(***************************************************************************)
AvatarResolves ==
    /\ idle
    /\ avatarInFlight
    /\ avatarInFlight' = FALSE
    /\ avatarSuggestions' = "suggestions"
    /\ UNCHANGED << fieldValues, usernameError, timers, inflight,
                    avatarCalls, sendInFlight, sendCalls,
                    toasts, setCanSaveCalls, pendingEffects, everDiffered >>

\* variant: a failed fetch is tried again
AvatarRejectsRetry ==
    /\ idle
    /\ avatarInFlight
    /\ avatarInFlight' = FALSE
    /\ pendingEffects' = {"getAvatarSuggestions"}
    /\ UNCHANGED << fieldValues, usernameError, avatarSuggestions, timers, inflight,
                    avatarCalls, sendInFlight, sendCalls,
                    toasts, setCanSaveCalls, everDiffered >>

AvatarRejects ==
    /\ idle
    /\ avatarInFlight
    /\ avatarInFlight' = FALSE
    /\ UNCHANGED << fieldValues, usernameError, avatarSuggestions, timers, inflight,
                    avatarCalls, sendInFlight, sendCalls,
                    toasts, setCanSaveCalls, pendingEffects, everDiffered >>

(***************************************************************************)
(* Resend verification email.                                              *)
(***************************************************************************)
\* the disabled property of the Resend_verification_email button
resendDisabled == email # previousEmail

\* variant: the comparison with the stored email is missing
HandleSendConfirmationEmailNoGuard ==
    /\ idle
    /\ sendCalls < MaxSends
    /\ sendInFlight' = sendInFlight + 1
    /\ sendCalls' = sendCalls + 1
    /\ UNCHANGED << fieldValues, usernameError, avatarSuggestions, timers, inflight,
                    avatarCalls, avatarInFlight,
                    toasts, setCanSaveCalls, pendingEffects, everDiffered >>

HandleSendConfirmationEmail ==
    /\ idle
    /\ sendCalls < MaxSends
    /\ IF email # previousEmail
       THEN UNCHANGED << sendInFlight, sendCalls >>
       ELSE /\ sendInFlight' = sendInFlight + 1
            /\ sendCalls' = sendCalls + 1
    /\ UNCHANGED << fieldValues, usernameError, avatarSuggestions, timers, inflight,
                    avatarCalls, avatarInFlight,
                    toasts, setCanSaveCalls, pendingEffects, everDiffered >>

SendResolves ==
    /\ idle
    /\ sendInFlight > 0
    /\ sendInFlight' = sendInFlight - 1
    /\ toasts' = Append(toasts, [type |-> "success", message |-> t("Verification_email_sent")])
    /\ UNCHANGED << fieldValues, usernameError, avatarSuggestions, timers, inflight,
                    avatarCalls, avatarInFlight, sendCalls,
                    setCanSaveCalls, pendingEffects, everDiffered >>

\* variant: the catch is missing
SendRejectsNoCatch ==
    /\ idle
    /\ sendInFlight > 0
    /\ sendInFlight' = sendInFlight - 1
    /\ UNCHANGED << fieldValues, usernameError, avatarSuggestions, timers, inflight,
                    avatarCalls, avatarInFlight, sendCalls, toasts,
                    setCanSaveCalls, pendingEffects, everDiffered >>

SendRejects ==
    /\ idle
    /\ sendInFlight > 0
    /\ sendInFlight' = sendInFlight - 1
    /\ toasts' = Append(toasts, [type |-> "error", message |-> "error"])
    /\ UNCHANGED << fieldValues, usernameError, avatarSuggestions, timers, inflight,
                    avatarCalls, avatarInFlight, sendCalls,
                    setCanSaveCalls, pendingEffects, everDiffered >>

Next ==
    \/ \E v \in Realnames : HandleRealname(v)
    \/ \E v \in Emails : HandleEmail(v)
    \/ \E v \in StatusTexts : HandleStatusText(v)
    \/ \E v \in Usernames : HandleUsername(v)
    \/ \E v \in Passwords : HandlePassword(v)
    \/ \E v \in Passwords : HandleConfirmationPassword(v)
    \/ RunAvatarEffect
    \/ RunCheckUsernameEffect
    \/ RunPasswordEffect
    \/ RunCanSaveEffect
    \/ \E v \in Usernames : TimerFires(v)
    \/ \E v \in Usernames : CheckResolves(v)
    \/ \E v \in Usernames : CheckRejects(v)
    \/ AvatarResolves
    \/ AvatarRejects
    \/ HandleSendConfirmationEmail
    \/ SendResolves
    \/ SendRejects

Spec == Init /\ [][Next]_vars

(***************************************************************************)
(* The components on their own.  The actions of one component leave the    *)
(* variables of the others unchanged, so each component is also checked    *)
(* with the other components at rest.                                      *)
(***************************************************************************)
Effects ==
    \/ RunAvatarEffect
    \/ RunCheckUsernameEffect
    \/ RunPasswordEffect
    \/ RunCanSaveEffect

\* the username checker; the other fields hold the baseline values
InitUsername ==
    /\ Init
    /\ realname = user.name
    /\ email = user.email
    /\ password = ""
    /\ confirmationPassword = ""
    /\ statusText = Rep(0)

NextUsername ==
    \/ \E v \in Usernames : HandleUsername(v)
    \/ Effects
    \/ \E v \in Usernames : TimerFires(v)
    \/ \E v \in Usernames : CheckResolves(v)
    \/ \E v \in Usernames : CheckRejects(v)

SpecUsername == InitUsername /\ [][NextUsername]_vars

\* the field validators and the password cascade; the username is not edited
InitFields ==
    /\ Init
    /\ username = user.username

NextFields ==
    \/ \E v \in Realnames : HandleRealname(v)
    \/ \E v \in Emails : HandleEmail(v)
    \/ \E v \in StatusTexts : HandleStatusText(v)
    \/ \E v \in Passwords : HandlePassword(v)
    \/ \E v \in Passwords : HandleConfirmationPassword(v)
    \/ Effects

SpecFields == InitFields /\ [][NextFields]_vars

\* pending effects are always flushed
SpecFieldsLive == SpecFields /\ WF_vars(Effects)

\* the remote calls other than the username check: the avatar suggestions
\* and the resend action, with the email, name and status fields edited
InitAsync ==
    /\ Init
    /\ realname = user.name
    /\ username = user.username
    /\ password = ""
    /\ confirmationPassword = ""
    /\ statusText = Rep(0)

NextAsync ==
    \/ \E v \in Emails : HandleEmail(v)
    \/ \E v \in Realnames : HandleRealname(v)
    \/ \E v \in StatusTexts : HandleStatusText(v)
    \/ Effects
    \/ AvatarResolves
    \/ AvatarRejects
    \/ HandleSendConfirmationEmail
    \/ SendResolves
    \/ SendRejects

SpecAsync == InitAsync /\ [][NextAsync]_vars

\* everything the form does by itself, with the username, password and
\* confirmationPassword fields edited
InitEngine ==
    /\ Init
    /\ realname = user.name
    /\ email = user.email
    /\ statusText = Rep(0)

NextEngine ==
    \/ \E v \in Usernames : HandleUsername(v)
    \/ \E v \in Passwords : HandlePassword(v)
    \/ \E v \in Passwords : HandleConfirmationPassword(v)
    \/ Effects
    \/ \E v \in Usernames : TimerFires(v)
    \/ \E v \in Usernames : CheckResolves(v)
    \/ \E v \in Usernames : CheckRejects(v)
    \/ AvatarResolves
    \/ AvatarRejects
    \/ HandleSendConfirmationEmail
    \/ SendResolves
    \/ SendRejects

SpecEngine == InitEngine /\ [][NextEngine]_vars

(***************************************************************************)
(* Properties.                                                             *)
(***************************************************************************)
published == setCanSaveCalls[Len(setCanSaveCalls)]

\* C1: the canSave value last published through setCanSave is true exactly
\* when none of the five errors is present.
CanSaveIffNoError ==
    (idle /\ setCanSaveCalls # << >>) => (published <=> ~anyError)

\* C2: the answer of an availability request for a value that is no longer
\* the username field's value changes neither usernameError nor the toasts.
StaleResponseDiscarded ==
    [][\A v \in Usernames :
          (inflight'[v] < inflight[v] /\ username # v)
             => (usernameError' = usernameError /\ toasts' = toasts)]_vars

\* C3: when the availability request rejects, an error toast is dispatched
\* and usernameError is reset to undefined.
RejectionFailsOpen ==
    [][\A v \in Usernames :
          CheckRejects(v)
             => /\ usernameError' = undefined
                /\ Len(toasts') = Len(toasts) + 1
                /\ toasts'[Len(toasts')].type = "error"]_vars

\* C4: at most one timer is pending and it holds the latest username; every
\* change of the username restarts it; a firing issues at most one request,
\* for the latest value; requests are issued by firings only; handing in
\* the same username again starts nothing.
DebounceOneTimer ==
    /\ [](Cardinality(timers) <= 1)
    /\ [](idle => timers \subseteq {username})
    /\ [][username' # username => "checkUsername" \in pendingEffects']_vars
    /\ [][(nextEffect("checkUsername") /\ "checkUsername" \notin pendingEffects')
              => timers' = {username}]_vars
    /\ [][(idle /\ timers' # timers)
              => /\ inflightCount' <= inflightCount + 1
                 /\ \A v \in Usernames :
                       inflight'[v] > inflight[v] => (v = username /\ v \in timers)]_vars
    /\ [][inflightCount' > inflightCount => (idle /\ timers' = {} /\ timers # {})]_vars
    /\ [][(idle /\ username' = username)
              => (timers' \subseteq timers /\ "checkUsername" \notin pendingEffects')]_vars

\* a timer was restarted for "bob" after the one for "alice" fired
DebounceWitness ==
    /\ timers = {"bob"}
    /\ username = "bob"
    /\ inflight["alice"] = 1
    /\ idle

\* C5: a change of password to the empty string schedules the password
\* effect, the effect sets confirmationPassword to the empty string, and
\* the effect does run.
PasswordCascade ==
    /\ [][(password' = "" /\ password # "") => "password" \in pendingEffects']_vars
    /\ [][(password = "" /\ "password" \in pendingEffects /\ "password" \notin pendingEffects')
              => confirmationPassword' = ""]_vars
    /\ ((password = "" /\ "password" \in pendingEffects)
           ~> (password = "" /\ confirmationPassword = "" /\ "password" \notin pendingEffects))

\* the password was just cleared while a confirmation was held
PasswordCascadeWitness ==
    /\ password = ""
    /\ confirmationPassword = "secret1"
    /\ pendingEffects = {"password"}

\* C6: once the pending effects have run, the form never holds a non-empty
\* confirmationPassword together with an empty password.
NoConfirmationWithoutPassword ==
    idle => ~(password = "" /\ confirmationPassword # "")

\* C7: no availability request is in flight for the baseline username, and
\* while the username never differed from the baseline there is no
\* usernameError and no request at all.
BaselineUsernameNotChecked ==
    /\ inflight[user.username] = 0
    /\ ~everDiffered => (usernameError = undefined /\ inflightCount = 0)

\* the timer fired for the unchanged baseline username
BaselineUsernameWitness ==
    /\ ~everDiffered
    /\ username = user.username
    /\ timers = {}
    /\ idle

\* the outcome of the check of one value
outcomeOf(u) ==
    IF u = user.username THEN undefined
    ELSE IF ~namesRegexTest(u) THEN t("error-invalid-username")
    ELSE IF ~serverIsAvailable(u) THEN t("Username_already_exist")
    ELSE undefined

\* C8: when no effect and no timer is pending and no request is in flight,
\* usernameError is the outcome of the check of the current username.
LastTypedValueWins ==
    (idle /\ timers = {} /\ inflightCount = 0) => usernameError = outcomeOf(username)

\* C9 as stated: passwordError is absent exactly when both values are empty
\* or both are non-empty and equal.
PasswordErrorAsStated ==
    idle =>
       ((passwordError = undefined)
          <=> \/ (password = "" /\ confirmationPassword = "")
              \/ (password # "" /\ confirmationPassword # "" /\ password = confirmationPassword))

\* C9 as amended: passwordError is "Passwords_do_not_match" exactly when both
\* values are non-empty and differ, and is absent in every other case, one
\* of the two being empty included.
PasswordErrorIffBothSetAndDifferent ==
    /\ passwordError \in {undefined, t("Passwords_do_not_match")}
    /\ (passwordError = t("Passwords_do_not_match"))
          <=> (password # "" /\ confirmationPassword # "" /\ password # confirmationPassword)

\* exactly one of the two is empty and no error is raised
PasswordErrorWitness ==
    /\ password = "secret1"
    /\ confirmationPassword = ""
    /\ passwordError = undefined
    /\ idle

\* C10: a passwordError is present only when both password and
\* confirmationPassword are non-empty.
MismatchOnlyWhenBothSet ==
    passwordError # undefined => (password # "" /\ confirmationPassword # "")

\* a mismatch is reported
MismatchWitness ==
    /\ passwordError = t("Passwords_do_not_match")
    /\ password = "secret2"
    /\ confirmationPassword = "secret1"
    /\ idle

\* C11: setCanSave is called for the initial value and afterwards only when
\* canSave has changed: a step that leaves canSave unchanged schedules no
\* call, and two consecutive calls never carry the same boolean.
CanSavePublishedOnChangeOnly ==
    /\ [](Len(setCanSaveCalls) = 2 => setCanSaveCalls[1] # setCanSaveCalls[2])
    /\ [][setCanSaveCalls' # setCanSaveCalls
              => /\ nextEffect("canSave")
                 /\ (setCanSaveCalls = << >> \/ canSave # published)]_vars
    /\ [][(idle /\ canSave' = canSave) => "canSave" \notin pendingEffects']_vars

\* the initial value was published and a later error caused no second call
CanSavePublishedWitness ==
    /\ setCanSaveCalls = << TRUE >>
    /\ passwordError # undefined
    /\ statusTextError # undefined
    /\ idle

\* C12: the resend button is disabled exactly when the email field differs
\* from the stored email, and in such a state no step issues a
\* sendConfirmationEmail call.
ResendOnlyForStoredEmail ==
    /\ [](resendDisabled <=> email # user.email)
    /\ [][email # user.email
              => (sendCalls' = sendCalls /\ sendInFlight' <= sendInFlight)]_vars
    /\ [][(email # user.email /\ sendInFlight' = sendInFlight) => toasts' = toasts]_vars

\* the email was edited and nothing was sent
ResendDisabledWitness ==
    /\ email = "a@new.com"
    /\ resendDisabled
    /\ sendCalls = 0
    /\ toasts = << >>
    /\ idle

\* C13: an invocation of the resend action with the stored email issues one
\* call; every call is either in flight or has ended with exactly one toast,
\* of type success when it resolved and of type error when it rejected, and
\* the end of a call changes nothing else.
ResendOneCallOneToast ==
    /\ [](sendCalls = sendInFlight + Len(toasts))
    /\ [][sendCalls' # sendCalls
              => /\ email = previousEmail
                 /\ sendCalls' = sendCalls + 1
                 /\ sendInFlight' = sendInFlight + 1
                 /\ toasts' = toasts]_vars
    /\ [][sendInFlight' < sendInFlight
              => /\ sendInFlight' = sendInFlight - 1
                 /\ Len(toasts') = Len(toasts) + 1
                 /\ SubSeq(toasts', 1, Len(toasts)) = toasts
                 /\ toasts'[Len(toasts')].type \in {"success", "error"}
                 /\ fieldValues' = fieldValues
                 /\ usernameError' = usernameError
                 /\ pendingEffects' = pendingEffects]_vars
    /\ [][SendResolves => toasts'[Len(toasts')].type = "success"]_vars
    /\ [][SendRejects => toasts'[Len(toasts')] = [type |-> "error", message |-> "error"]]_vars
    /\ [][toasts' # toasts => sendInFlight' < sendInFlight]_vars

\* a call was rejected and ended with one error toast
ResendRejectedWitness ==
    /\ sendCalls = 1
    /\ sendInFlight = 0
    /\ Len(toasts) = 1
    /\ toasts[1].type = "error"

\* C14: getAvatarSuggestion is called once, by the first flush of effects, and
\* never again; suggestions once stored are never modified.
AvatarFetchedOnce ==
    /\ [](avatarCalls = IF "getAvatarSuggestions" \in pendingEffects THEN 0 ELSE 1)
    /\ [][avatarCalls' # avatarCalls => (avatarCalls = 0 /\ setCanSaveCalls = << >>)]_vars
    /\ [][avatarSuggestions # undefined => avatarSuggestions' = avatarSuggestions]_vars

\* the fetch failed, a field was edited and no second call was made
AvatarFetchFailedWitness ==
    /\ avatarCalls = 1
    /\ ~avatarInFlight
    /\ avatarSuggestions = undefined
    /\ email = "a.x.com"
    /\ idle

\* C15: statusTextError is absent exactly when statusText is empty or at most
\* 120 characters long, and is "max length is 120" otherwise.
StatusTextLimit ==
    /\ (statusTextError = undefined) <=> (Len(statusText) = 0 \/ Len(statusText) <= 120)
    /\ statusTextError # undefined => statusTextError = "max length is 120"

\* a status text of exactly 120 characters is accepted
StatusTextLimitWitness ==
    /\ Len(statusText) = 120
    /\ statusTextError = undefined
    /\ idle

\* C16: while a request for the current username is in flight,
\* usernameError is absent.
NoErrorWhileInFlight ==
    (idle /\ inflight[username] > 0) => usernameError = undefined

\* C17 as stated: once the username is the baseline username and the effects
\* of the change have run, no usernameError is displayed.
BaselineClearsAtOnce ==
    (idle /\ username = user.username) => usernameError = undefined

\* C17 as amended: a change of the username to the baseline value goes through
\* the debounce like any other change and leaves usernameError as it is; when
\* the timer fires for the baseline value, usernameError is reset to absent
\* and no request is issued.
BaselineClearedWhenTimerFires ==
    /\ [][(username # user.username /\ username' = user.username)
              => /\ "checkUsername" \in pendingEffects'
                 /\ usernameError' = usernameError
                 /\ timers' = timers]_vars
    /\ [][(nextEffect("checkUsername") /\ username = user.username
               /\ "checkUsername" \notin pendingEffects')
              => (timers' = {user.username} /\ usernameError' = usernameError)]_vars
    /\ [][(idle /\ user.username \in timers /\ user.username \notin timers')
              => (usernameError' = undefined /\ inflight' = inflight)]_vars

\* the username is back at the baseline, the error of the previous value is
\* still displayed and the timer is pending
BaselineDebouncedWitness ==
    /\ username = user.username
    /\ usernameError = "invalid username"
    /\ timers = {user.username}
    /\ idle

\* C18: when the timer fires for a value that differs from the baseline and
\* fails the pattern, usernameError becomes "invalid username" and no request
\* is issued; no request is ever in flight for such a value.
InvalidPatternShortCircuits ==
    /\ [](\A v \in Usernames : ~namesRegexTest(v) => inflight[v] = 0)
    /\ [][\A v \in Usernames :
              (idle /\ v \in timers /\ v \notin timers'
                  /\ v # user.username /\ ~namesRegexTest(v))
                 => (usernameError' = "invalid username" /\ inflight' = inflight)]_vars

\* the timer fired for "b@d"
InvalidPatternWitness ==
    /\ username = "b@d"
    /\ usernameError = "invalid username"
    /\ timers = {}
    /\ inflightCount = 0
    /\ idle

\* C19 as stated: the computed canSave is true exactly when at least one of the
\* five errors is present.
CanSaveInverted ==
    idle => (canSave <=> anyError)

\* C19 as amended: the computed canSave is true in every state, whether or not
\* an error is present, and so is every value handed to setCanSave.
CanSaveAlwaysTrue ==
    /\ canSave
    /\ \A i \in 1..Len(setCanSaveCalls) : setCanSaveCalls[i]

\* no error is present and the form is reported savable
CanSaveNoErrorWitness ==
    /\ ~anyError
    /\ canSave
    /\ setCanSaveCalls = << TRUE >>
    /\ idle

\* C20: an effect changes no field value except that the password effect, with
\* an empty password, sets confirmationPassword to the empty string; the
\* username check, the avatar fetch and the resend action change no field
\* value; a change of confirmationPassword changes no other field value.
EngineFrame ==
    /\ [][~idle
              => /\ << realname, email, username, password, statusText >>'
                       = << realname, email, username, password, statusText >>
                 /\ confirmationPassword' # confirmationPassword
                       => (nextEffect("password") /\ password = ""
                              /\ confirmationPassword' = "")]_vars
    /\ [][(idle /\ (\/ timers' # timers
                     \/ inflight' # inflight
                     \/ usernameError' # usernameError
                     \/ avatarInFlight' # avatarInFlight
                     \/ avatarSuggestions' # avatarSuggestions
                     \/ sendInFlight' # sendInFlight
                     \/ sendCalls' # sendCalls
                     \/ toasts' # toasts))
              => fieldValues' = fieldValues]_vars
    /\ [][confirmationPassword' # confirmationPassword
              => << realname, email, username, password, statusText >>'
                    = << realname, email, username, password, statusText >>]_vars

\* the username check, the avatar fetch and the resend action have all come
\* to an end while a password and its confirmation are held
EngineFrameWitness ==
    /\ password = "secret1"
    /\ confirmationPassword = "secret1"
    /\ usernameError = "username already exists"
    /\ avatarSuggestions # undefined
    /\ Len(toasts) = 1
    /\ idle

====
